---------------------------- MODULE Spec2Model ----------------------------
(***************************************************************************)
(* A model of fuzzy.py: the font classifier (classify_font), the query     *)
(* engine (filter_fonts, the search), the stats aggregator (compute_stats),*)
(* the export (export_fonts), the interactive session (run_tui) and the    *)
(* batch flow of main.                                                     *)
(*                                                                         *)
(* Python strings are TLA+ strings; a string operation (lower, strip,      *)
(* split, the substring test `in`, int) is computed on the sequence of the *)
(* string's characters.                                                    *)
(***************************************************************************)
EXTENDS Integers, Sequences, FiniteSets, TLC

VARIABLES
    pc,               \* the position of the program (the session's state)
    all_fonts,        \* the full catalog: a list of font records
    fonts,            \* the working set / the list a function works on
    applied_filters,  \* run_tui: category -> BOOLEAN
    search_term,      \* run_tui: the current search term
    page,             \* run_tui: the page index
    total_pages,      \* run_tui: the page count computed on entering the listing
    line,             \* the line of input the last step read
    out,              \* the message the last step printed
    table,            \* the rows show_fonts_table printed last
    args,             \* main: the parsed command line
    export_result,    \* how the last call of export_fonts ended
    font_name,        \* classify_font: its arguments ...
    font_path,
    metadata,         \* ... and what reading the family metadata gives
    cats,             \* classify_font: its result
    stats             \* compute_stats: its result

vars == <<pc, all_fonts, fonts, applied_filters, search_term, page, total_pages,
          line, out, table, args, export_result, font_name, font_path,
          metadata, cats, stats>>

None == "<None>"

-----------------------------------------------------------------------------
(* Strings *)

Chars(s) == [i \in 1..Len(s) |-> SubSeq(s, i, i)]

UpperChars == Chars("ABCDEFGHIJKLMNOPQRSTUVWXYZ")
LowerChars == Chars("abcdefghijklmnopqrstuvwxyz")

\* str.lower() on one character
LowerChar(c) ==
    IF \E i \in 1..Len(UpperChars) : UpperChars[i] = c
    THEN LowerChars[CHOOSE i \in 1..Len(UpperChars) : UpperChars[i] = c]
    ELSE c

\* str.lower() on a sequence of characters
Lower(cs) == [i \in 1..Len(cs) |-> LowerChar(cs[i])]

\* `sub in s` on sequences of characters
ContainsSeq(sub, s) ==
    \E i \in 0..(Len(s) - Len(sub)) : SubSeq(s, i + 1, i + Len(sub)) = sub

\* `key in name` where name is already a sequence of (lowercased) characters
In(key, name) == ContainsSeq(Chars(key), name)

\* any(x in name for x in keywords)
AnyIn(keywords, name) == \E k \in keywords : In(k, name)

-----------------------------------------------------------------------------
(* The classifier *)

\* The override table, in the order the dict literal gives its items.
FONT_CATEGORY_OVERRIDES ==
    << <<"fira code", "mono">>,
       <<"ubuntu mono", "mono">>,
       <<"source code pro", "mono">>,
       <<"inconsolata", "mono">>,
       <<"courier new", "mono">>,
       <<"roboto", "sans">>,
       <<"open sans", "sans">>,
       <<"lato", "sans">>,
       <<"noto sans", "sans">>,
       <<"arial", "sans">>,
       <<"helvetica", "sans">>,
       <<"segoe ui", "sans">>,
       <<"times new roman", "serif">>,
       <<"georgia", "serif">>,
       <<"cambria", "serif">>,
       <<"palatino", "serif">>,
       <<"noto serif", "serif">>,
       <<"impact", "display">>,
       <<"stencil", "display">>,
       <<"wingdings", "symbol">>,
       <<"webdings", "symbol">>,
       <<"emoji one", "symbol">> >>

\* The indexes of the override keys that are substrings of the lowercased name.
OverrideHits(name) ==
    {i \in 1..Len(FONT_CATEGORY_OVERRIDES) : In(FONT_CATEGORY_OVERRIDES[i][1], name)}

Minimum(S) == CHOOSE x \in S : \A y \in S : x <= y

\* A loop over the table that does not stop at the first match.
OverrideStageNoBreak(name) ==
    {FONT_CATEGORY_OVERRIDES[i][2] : i \in OverrideHits(name)}

\* 1. the override mapping: the first key of the table found in the name
OverrideStage(name) ==
    IF OverrideHits(name) = {}
    THEN {}
    ELSE {FONT_CATEGORY_OVERRIDES[Minimum(OverrideHits(name))][2]}

FamilyMono == {"mono", "courier", "code", "console", "fixed", "menlo", "monaco"}
FamilySerif == {"serif", "times", "georgia", "cambria", "palatino"}
FamilySans == {"sans", "arial", "helvetica", "segoe", "noto sans", "open sans", "roboto"}

\* 2. the family metadata, read only with a path and no category yet; meta is
\*    what FontProperties(fname=path).get_family() does: it raises, or it
\*    returns a list of family names.
FamilyStage(path, meta, cs) ==
    IF path # None /\ path # "" /\ cs = {}
    THEN IF meta.raises \/ meta.family = <<>>
         THEN cs
         ELSE LET family_name == Lower(Chars(meta.family[1]))
              IN  IF AnyIn(FamilyMono, family_name) THEN {"mono"}
                  ELSE IF AnyIn(FamilySerif, family_name) THEN {"serif"}
                  ELSE IF AnyIn(FamilySans, family_name) THEN {"sans"}
                  ELSE cs
    ELSE cs

NameMono == {"mono", "code", "console", "fixed", "menlo", "monaco"}
NameSerif == {"serif", "times", "georgia", "cambria", "palatino"}
NameSans == {"sans", "arial", "helvetica", "segoe", "noto sans", "open sans", "roboto"}
NameDisplay == {"display", "poster", "impact", "headline", "stencil", "black", "grotesk"}
NameSymbol == {"symbol", "wingdings", "dingbat", "emoji", "webdings"}

\* 3. the heuristic on the name, only with no category yet
NameStage(name, cs) ==
    IF cs = {}
    THEN (IF AnyIn(NameMono, name) THEN {"mono"} ELSE {})
         \cup (IF AnyIn(NameSerif, name) THEN {"serif"} ELSE {})
         \cup (IF AnyIn(NameSans, name) THEN {"sans"} ELSE {})
         \cup (IF AnyIn(NameDisplay, name) THEN {"display"} ELSE {})
         \cup (IF AnyIn(NameSymbol, name) THEN {"symbol"} ELSE {})
    ELSE cs

\* A classifier without its last stage.
FallbackStageMissing(cs) == cs

\* 4. the fallback
FallbackStage(cs) == IF cs = {} THEN {"other"} ELSE cs

classify_font(name_, path, meta) ==
    LET name == Lower(Chars(name_))
    IN  FallbackStage(NameStage(name, FamilyStage(path, meta, OverrideStage(name))))

NoMeta == [raises |-> FALSE, family |-> <<>>]

-----------------------------------------------------------------------------
(* The parts of the state a run does not use *)

FilterKeys == <<"mono", "serif", "sans", "display", "symbol">>
Categories == {"mono", "serif", "sans", "display", "symbol", "other"}

NoFilters == [k \in {FilterKeys[i] : i \in 1..Len(FilterKeys)} |-> FALSE]

\* A limit: None, or an integer
NoLimit == [given |-> FALSE, n |-> 0]
Limit(k) == [given |-> TRUE, n |-> k]

NoArgs == [filters |-> NoFilters, search |-> None, limit |-> NoLimit,
           stats |-> FALSE, export |-> None, tui |-> FALSE]

NoStats == [total |-> 0,
            counts |-> [c \in Categories |-> 0],
            examples |-> [c \in Categories |-> <<>>]]

NoSession ==
    /\ applied_filters = NoFilters
    /\ search_term = ""
    /\ page = 0
    /\ total_pages = 0
    /\ line = None
    /\ out = None
    /\ table = <<>>

NoClassifyCall ==
    /\ font_name = None
    /\ font_path = None
    /\ metadata = NoMeta
    /\ cats = {}

-----------------------------------------------------------------------------
(* classify_font on its own: SpecClassify *)

MaxWords == 2

Words == {"Arial", "IMPACT", "Noto Sans", "Georgian", "Mono", "Poster",
          "Rando", "Emoji One"}

RECURSIVE NamesOf(_)
NamesOf(n) ==
    IF n = 1 THEN Words
    ELSE NamesOf(n - 1) \cup {a \o " " \o w : a \in NamesOf(n - 1), w \in Words}

ClassifyNames == NamesOf(MaxWords)

ClassifyPaths == {None, "/usr/share/fonts/f.ttf"}

Metas == {[raises |-> TRUE, family |-> <<>>],
          [raises |-> FALSE, family |-> <<>>],
          [raises |-> FALSE, family |-> <<"sans-serif">>],
          [raises |-> FALSE, family |-> <<"DejaVu Sans Mono", "monospace">>],
          [raises |-> FALSE, family |-> <<"Helvetica Neue">>],
          [raises |-> FALSE, family |-> <<"Comic">>]}

InitClassify ==
    /\ pc = "classify"
    /\ font_name \in ClassifyNames
    /\ font_path \in ClassifyPaths
    /\ metadata \in Metas
    /\ cats = {}
    /\ all_fonts = <<>>
    /\ fonts = <<>>
    /\ NoSession
    /\ args = NoArgs
    /\ export_result = None
    /\ stats = NoStats

Classify ==
    /\ pc = "classify"
    /\ cats' = classify_font(font_name, font_path, metadata)
    /\ pc' = "classified"
    /\ UNCHANGED <<all_fonts, fonts, applied_filters, search_term, page,
                   total_pages, line, out, table, args, export_result,
                   font_name, font_path, metadata, stats>>

NextClassify == Classify

SpecClassify == InitClassify /\ [][NextClassify]_vars

OverrideKey(i) == FONT_CATEGORY_OVERRIDES[i][1]
OverrideCat(i) == FONT_CATEGORY_OVERRIDES[i][2]
LowerName == Lower(Chars(font_name))
HasPath == font_path # None /\ font_path # ""

\* C5, as stated: for every key of the override table that is a substring of
\* the lowercased name, classify_font returns exactly {that key's category}.
C5_EveryOverrideKeyWins ==
    pc = "classified" =>
        \A i \in 1..Len(FONT_CATEGORY_OVERRIDES) :
            In(OverrideKey(i), LowerName) => cats = {OverrideCat(i)}

\* C5, amended: classify_font returns exactly the one-element set holding the
\* category of the FIRST key, in the table's order, that is a substring of the
\* lowercased name, whatever the name keywords or the family metadata give.
C5_FirstOverrideKeyWins ==
    pc = "classified" =>
        \A i \in 1..Len(FONT_CATEGORY_OVERRIDES) :
            (/\ In(OverrideKey(i), LowerName)
             /\ \A j \in 1..(i - 1) : ~In(OverrideKey(j), LowerName))
            => cats = {OverrideCat(i)}

\* C5's case: a classified name that holds override keys of two categories,
\* and name keywords and family metadata that would give other tags.
C5_Witness ==
    /\ pc = "classified"
    /\ font_name = "Noto Sans Georgian"
    /\ HasPath
    /\ metadata.family = <<"DejaVu Sans Mono", "monospace">>
    /\ cats = {"sans"}

AllNameKeywords == NameMono \cup NameSerif \cup NameSans \cup NameDisplay \cup NameSymbol
AllFamilyKeywords == FamilyMono \cup FamilySerif \cup FamilySans

\* C6: classify_font returns a non-empty set, either exactly {other} or a
\* non-empty subset of {mono, serif, sans, display, symbol}; other is there
\* only when no override key, no usable family metadata and no name keyword
\* assigned a tag.
C6_NonEmptyOtherLast ==
    pc = "classified" =>
        /\ cats # {}
        /\ cats = {"other"} \/ cats \subseteq (Categories \ {"other"})
        /\ "other" \in cats <=>
              /\ \A i \in 1..Len(FONT_CATEGORY_OVERRIDES) : ~In(OverrideKey(i), LowerName)
              /\ ~AnyIn(AllNameKeywords, LowerName)
              /\ \/ ~HasPath
                 \/ metadata.raises
                 \/ metadata.family = <<>>
                 \/ ~AnyIn(AllFamilyKeywords, Lower(Chars(metadata.family[1])))

\* C6's case: a name no stage recognises, classified with a path whose
\* metadata cannot be read.
C6_Witness ==
    /\ pc = "classified"
    /\ HasPath
    /\ metadata.raises
    /\ cats = {"other"}

-----------------------------------------------------------------------------
(* The catalog *)

\* Font names, sorted as get_all_fonts sorts them (by lowercased name).
Pool == <<"DejaVu Sans Mono", "Fira Code", "Impact", "RandoFont123",
          "Times New Roman", "Webdings">>

\* n font files of one name: the names are equal and the resolved paths differ.
Copies(name, n) ==
    [i \in 1..n |-> [name |-> name,
                     path |-> "/fonts/" \o name \o "-" \o ToString(i) \o ".ttf"]]

\* What get_all_fonts returns on a machine with mult[j] files of the j-th of
\* the first k names of the pool: records of name and path, sorted by name.
RECURSIVE get_all_fonts(_, _)
get_all_fonts(k, mult) ==
    IF k = 0 THEN <<>>
    ELSE get_all_fonts(k - 1, mult) \o Copies(Pool[k], mult[k])

PoolNames == {Pool[i] : i \in 1..Len(Pool)}

\* classify_font(name), without a path, tabulated for the names of the pool
ClassifyTable == [n \in PoolNames |-> classify_font(n, None, NoMeta)]

\* attach_classification: f["cats"] = classify_font(f["name"])
attach_classification(fs) ==
    [i \in 1..Len(fs) |->
        [name |-> fs[i].name, path |-> fs[i].path, cats |-> ClassifyTable[fs[i].name]]]

-----------------------------------------------------------------------------
(* compute_stats: SpecStats *)

ExamplesCap == 5

\* The body of the loop over the fonts, with no cap on the examples.
StatsAddNoCap(st, f) ==
    [st EXCEPT
        !.counts = [c \in Categories |->
                        IF c \in f.cats THEN st.counts[c] + 1 ELSE st.counts[c]],
        !.examples = [c \in Categories |->
                        IF c \in f.cats
                        THEN Append(st.examples[c], f.name)
                        ELSE st.examples[c]]]

\* The body of the loop over the fonts: for c in f["cats"]: ...
StatsAdd(st, f) ==
    [st EXCEPT
        !.counts = [c \in Categories |->
                        IF c \in f.cats THEN st.counts[c] + 1 ELSE st.counts[c]],
        !.examples = [c \in Categories |->
                        IF c \in f.cats /\ Len(st.examples[c]) < ExamplesCap
                        THEN Append(st.examples[c], f.name)
                        ELSE st.examples[c]]]

RECURSIVE StatsLoop(_, _, _)
StatsLoop(st, fs, i) ==
    IF i > Len(fs) THEN st ELSE StatsLoop(StatsAdd(st, fs[i]), fs, i + 1)

compute_stats(fs) == [StatsLoop(NoStats, fs, 1) EXCEPT !.total = Len(fs)]

MaxStatCopies == 6
StatNames == 3

StatLists ==
    {attach_classification(get_all_fonts(StatNames, mult)) :
        mult \in [1..StatNames -> 0..MaxStatCopies]}

InitStats ==
    /\ pc = "stats"
    /\ all_fonts \in StatLists
    /\ fonts = all_fonts
    /\ stats = NoStats
    /\ NoSession
    /\ NoClassifyCall
    /\ args = NoArgs
    /\ export_result = None

ComputeStats ==
    /\ pc = "stats"
    /\ stats' = compute_stats(fonts)
    /\ pc' = "stats-done"
    /\ UNCHANGED <<all_fonts, fonts, applied_filters, search_term, page,
                   total_pages, line, out, table, args, export_result,
                   font_name, font_path, metadata, cats>>

NextStats == ComputeStats

SpecStats == InitStats /\ [][NextStats]_vars

Min2(a, b) == IF a < b THEN a ELSE b

NamesOfFonts(fs) == [i \in 1..Len(fs) |-> fs[i].name]

Tagged(fs, c) == SelectSeq(fs, LAMBDA f : c \in f.cats)

RECURSIVE SumOver(_, _)
SumOver(f, S) ==
    IF S = {} THEN 0
    ELSE LET x == CHOOSE y \in S : TRUE IN f[x] + SumOver(f, S \ {x})

\* C7: compute_stats returns total = the number of fonts and, for every
\* category c, counts[c] = the number of fonts whose tag set contains c and
\* examples[c] = the names of the first min(5, counts[c]) such fonts in input
\* order.
C7_StatsCountEveryTag ==
    pc = "stats-done" =>
        /\ stats.total = Len(fonts)
        /\ \A c \in Categories :
            /\ stats.counts[c] = Cardinality({i \in 1..Len(fonts) : c \in fonts[i].cats})
            /\ stats.examples[c] =
                  SubSeq(NamesOfFonts(Tagged(fonts, c)), 1, Min2(5, stats.counts[c]))
            /\ Len(stats.examples[c]) <= 5

\* C7's case: more than five fonts of one category, fonts with two tags, and
\* counts that sum to more than the total.
C7_Witness ==
    /\ pc = "stats-done"
    /\ stats.counts["mono"] > 5
    /\ Len(stats.examples["mono"]) = 5
    /\ stats.examples["mono"][5] # stats.examples["mono"][1]
    /\ stats.counts["sans"] > 0
    /\ SumOver(stats.counts, Categories) > stats.total

-----------------------------------------------------------------------------
(* More of Python's strings: strip, split, int *)

Whitespace == {" ", "\t"}

RECURSIVE Str(_)
Str(cs) == IF cs = <<>> THEN "" ELSE Head(cs) \o Str(Tail(cs))

RECURSIVE LStrip(_)
LStrip(cs) ==
    IF cs # <<>> /\ Head(cs) \in Whitespace THEN LStrip(Tail(cs)) ELSE cs

RECURSIVE RStrip(_)
RStrip(cs) ==
    IF cs # <<>> /\ cs[Len(cs)] \in Whitespace
    THEN RStrip(SubSeq(cs, 1, Len(cs) - 1))
    ELSE cs

\* str.strip()
Strip(cs) == RStrip(LStrip(cs))

\* The length of the first whitespace-free run of cs.
RECURSIVE TokenLen(_)
TokenLen(cs) ==
    IF cs = <<>> \/ Head(cs) \in Whitespace THEN 0 ELSE 1 + TokenLen(Tail(cs))

\* str.split(maxsplit=1): the first token and, when there is one, the rest of
\* the string after the whitespace that follows the token.
Split1(cs) ==
    LET s0 == LStrip(cs)
        n == TokenLen(s0)
        rest == LStrip(SubSeq(s0, n + 1, Len(s0)))
    IN  IF s0 = <<>> THEN <<>>
        ELSE IF rest = <<>> THEN <<SubSeq(s0, 1, n)>>
        ELSE <<SubSeq(s0, 1, n), rest>>

Digits == Chars("0123456789")

DigitValue(c) == (CHOOSE i \in 1..10 : Digits[i] = c) - 1

IsDigit(c) == \E i \in 1..10 : Digits[i] = c

RECURSIVE DigitsValue(_)
DigitsValue(cs) ==
    IF cs = <<>> THEN 0
    ELSE 10 * DigitsValue(SubSeq(cs, 1, Len(cs) - 1)) + DigitValue(cs[Len(cs)])

\* int(s): an optional sign and decimal digits, whitespace around them
\* allowed; anything else raises ValueError.
ParseInt(cs) ==
    LET s0 == Strip(cs)
        signed == s0 # <<>> /\ Head(s0) \in {"+", "-"}
        ds == IF signed THEN Tail(s0) ELSE s0
    IN  IF ds # <<>> /\ \A i \in 1..Len(ds) : IsDigit(ds[i])
        THEN [ok |-> TRUE,
              value |-> IF signed /\ Head(s0) = "-" THEN 0 - DigitsValue(ds)
                        ELSE DigitsValue(ds)]
        ELSE [ok |-> FALSE, value |-> 0]

-----------------------------------------------------------------------------
(* The lines of input *)

\* The lines typed at the three prompts of the session.
MenuLines == {"", "h", "Q", "l", "n", "P", "s", "s e", "s  FONT ", "f",
              "t", "e", "e out.json", "quit"}
ListLines == {"", "n", " NEXT", "p", "prev", "q"}
FilterLines == {"", "0", "1", "2", " 3 ", "4", "05", "6", "00", "x", "q"}

\* cmdline.strip().split(maxsplit=1), for every line of the menu
MenuPartsTable == [ln \in MenuLines |-> Split1(Strip(Chars(ln)))]

MenuParts(ln) == MenuPartsTable[ln]

\* parts[0].lower(), of a line that is not blank
MenuCmdTable ==
    [ln \in MenuLines |->
        IF MenuParts(ln) = <<>> THEN None ELSE Str(Lower(MenuParts(ln)[1]))]

MenuCmd(ln) == MenuCmdTable[ln]

\* parts[1].strip(), of a line with an argument
MenuArgTable ==
    [ln \in MenuLines |->
        IF Len(MenuParts(ln)) = 2 THEN Str(Strip(MenuParts(ln)[2])) ELSE None]

MenuArg(ln) == MenuArgTable[ln]

\* input().strip().lower(), for every line of the listing
ListKeyTable == [ln \in ListLines |-> Str(Lower(Strip(Chars(ln))))]

ListKey(ln) == ListKeyTable[ln]

\* input().strip(), for every line of the filter menu, and int() of it
ChoiceTable ==
    [ln \in FilterLines |->
        [text |-> Str(Strip(Chars(ln))), int |-> ParseInt(Strip(Chars(ln)))]]

Choice(ln) == ChoiceTable[ln].text

ChoiceInt(ln) == ChoiceTable[ln].int

\* The search terms: those of the menu's lines and those of the command line.
BatchSearches == {None, "", "Mono", "e"}

SearchTerms ==
    {MenuArg(ln) : ln \in {l \in MenuLines : MenuCmd(l) = "s"}}
        \cup BatchSearches \cup {""}

-----------------------------------------------------------------------------
(* Filtering, searching, the table, the export *)

\* filter_fonts: flags maps each of the five categories to a boolean
filter_fonts(fs, flags) ==
    LET want == {k \in DOMAIN flags : flags[k]}
    IN  IF want = {} THEN fs
        ELSE SelectSeq(fs, LAMBDA f : f.cats \cap want # {})

\* term.lower() in name.lower()
NameHasTerm(name, term) == ContainsSeq(Lower(Chars(term)), Lower(Chars(name)))

\* NameHasTerm, tabulated for the names and the search terms of the model
NameHasTermTable ==
    [n \in PoolNames |-> [t \in SearchTerms |-> NameHasTerm(n, t)]]

\* [f for f in fs if term in f["name"].lower()], term being lowercased
search_fonts(fs, term) ==
    SelectSeq(fs, LAMBDA f : NameHasTermTable[f.name][term])

\* A refresh that narrows the current working set instead of the catalog.
refresh_working_set_incremental(flags, term) ==
    LET filtered == filter_fonts(fonts, flags)
    IN  IF term # "" THEN search_fonts(filtered, term) ELSE filtered

\* run_tui.refresh_working_set: the new value of the working set
refresh_working_set(flags, term) ==
    LET filtered == filter_fonts(all_fonts, flags)
    IN  IF term # "" THEN search_fonts(filtered, term) ELSE filtered

\* Python's fs[a:b] for 0 <= a
Slice(fs, a, b) ==
    LET hi == IF b < 0 THEN Len(fs) + b ELSE IF b > Len(fs) THEN Len(fs) ELSE b
    IN  IF hi <= a THEN <<>> ELSE SubSeq(fs, a + 1, hi)

\* show_fonts_table: the rows it prints, numbered from start + 1
show_fonts_table(fs, start, limit) ==
    LET subset == IF limit.given THEN Slice(fs, start, start + limit.n) ELSE fs
    IN  [i \in 1..Len(subset) |->
            [num |-> start + i, name |-> subset[i].name, path |-> subset[i].path]]

\* What can go wrong in an export: nothing, or one of its steps fails.
ExportFaults == {"none", "mkdir", "open", "write"}

\* export_fonts: the parent directories are created before the try; the file
\* is opened and written inside it.
export_fonts(fs, path, fault) ==
    IF fault = "mkdir" THEN "raised"
    ELSE IF fault \in {"open", "write"} THEN "reported"
    ELSE "exported"

-----------------------------------------------------------------------------
(* The interactive session, run_tui: Spec *)

page_size == 16

MaxCopies == 6

\* The catalogs of the session: c files of every name of the pool.
TuiCatalogs ==
    {attach_classification(get_all_fonts(Len(Pool), [j \in 1..Len(Pool) |-> c])) :
        c \in 0..MaxCopies}

MsgMenu == "FuzzyFont TUI"
MsgGoodbye == "Goodbye - exiting TUI."
MsgLastPage == "Already at last page"
MsgFirstPage == "Already at first page"
MsgListUnknown == "Unknown command in listing. Use n / p or Enter to return."
MsgHint == "Use 'l' to enter listing mode and then 'n'/'p' to navigate."
MsgSearch == "Search term set to:"
MsgInvalidNumber == "Invalid number"
MsgEnterNumber == "Enter a number"
MsgStats == "Font Statistics"
MsgUsage == "Usage: e <output_path>"
MsgExported == "Exported"
MsgExportReported == "Failed to export fonts:"
MsgExportFailed == "Export failed:"
MsgUnknown == "Unknown command. Type 'h' for help."

\* math.ceil(len(fonts) / page_size) if fonts else 1
TotalPages(fs) ==
    IF fs = <<>> THEN 1 ELSE (Len(fs) + page_size - 1) \div page_size

Init ==
    /\ pc = "menu"
    /\ all_fonts \in TuiCatalogs
    /\ applied_filters = NoFilters
    /\ search_term = ""
    \* fonts = all_fonts[:], which the first refresh_working_set() leaves as
    \* it is: no filter and no search term are set
    /\ fonts = all_fonts
    /\ page = 0
    /\ total_pages = 0
    /\ line = None
    /\ out = MsgMenu
    /\ table = <<>>
    /\ export_result = None
    /\ args = [NoArgs EXCEPT !.tui = TRUE]
    /\ NoClassifyCall
    /\ stats = NoStats

\* What no step of the session changes.
SessionFrame == UNCHANGED <<all_fonts, args, font_name, font_path, metadata, cats, stats>>

\* A blank line at the menu: `continue`.
MenuEmpty ==
    /\ pc = "menu"
    /\ \E ln \in MenuLines :
        /\ MenuParts(ln) = <<>>
        /\ line' = ln
    /\ out' = None
    /\ export_result' = None
    /\ UNCHANGED <<pc, fonts, applied_filters, search_term, page, total_pages, table>>
    /\ SessionFrame

MenuHelp ==
    /\ pc = "menu"
    /\ \E ln \in MenuLines :
        /\ MenuParts(ln) # <<>>
        /\ MenuCmd(ln) = "h"
        /\ line' = ln
    /\ out' = MsgMenu
    /\ table' = <<>>
    /\ export_result' = None
    /\ UNCHANGED <<pc, fonts, applied_filters, search_term, page, total_pages>>
    /\ SessionFrame

MenuQuit ==
    /\ pc = "menu"
    /\ \E ln \in MenuLines :
        /\ MenuParts(ln) # <<>>
        /\ MenuCmd(ln) = "q"
        /\ line' = ln
    /\ out' = MsgGoodbye
    /\ pc' = "quit"
    /\ export_result' = None
    /\ UNCHANGED <<fonts, applied_filters, search_term, page, total_pages, table>>
    /\ SessionFrame

\* `l`: page 0 of the listing is drawn and the listing prompt waits.
MenuList ==
    /\ pc = "menu"
    /\ \E ln \in MenuLines :
        /\ MenuParts(ln) # <<>>
        /\ MenuCmd(ln) = "l"
        /\ line' = ln
    /\ page' = 0
    /\ total_pages' = TotalPages(fonts)
    /\ table' = show_fonts_table(fonts, 0, Limit(page_size))
    /\ out' = None
    /\ pc' = "listing"
    /\ export_result' = None
    /\ UNCHANGED <<fonts, applied_filters, search_term>>
    /\ SessionFrame

\* A listing that advances without looking at the page count.
ListNextNoClamp ==
    /\ pc = "listing"
    /\ \E ln \in ListLines :
        /\ ListKey(ln) \in {"n", "next"}
        /\ line' = ln
    /\ page' = page + 1
    /\ out' = None
    /\ table' = show_fonts_table(fonts, page' * page_size, Limit(page_size))
    /\ export_result' = None
    /\ UNCHANGED <<pc, fonts, applied_filters, search_term, total_pages>>
    /\ SessionFrame

ListNext ==
    /\ pc = "listing"
    /\ \E ln \in ListLines :
        /\ ListKey(ln) \in {"n", "next"}
        /\ line' = ln
    /\ IF page + 1 < total_pages
       THEN page' = page + 1 /\ out' = None
       ELSE page' = page /\ out' = MsgLastPage
    /\ table' = show_fonts_table(fonts, page' * page_size, Limit(page_size))
    /\ export_result' = None
    /\ UNCHANGED <<pc, fonts, applied_filters, search_term, total_pages>>
    /\ SessionFrame

ListPrev ==
    /\ pc = "listing"
    /\ \E ln \in ListLines :
        /\ ListKey(ln) \in {"p", "prev"}
        /\ line' = ln
    /\ IF page > 0
       THEN page' = page - 1 /\ out' = None
       ELSE page' = page /\ out' = MsgFirstPage
    /\ table' = show_fonts_table(fonts, page' * page_size, Limit(page_size))
    /\ export_result' = None
    /\ UNCHANGED <<pc, fonts, applied_filters, search_term, total_pages>>
    /\ SessionFrame

\* An empty line in the listing: break, show_menu.
ListReturn ==
    /\ pc = "listing"
    /\ \E ln \in ListLines :
        /\ ListKey(ln) = ""
        /\ line' = ln
    /\ out' = MsgMenu
    /\ table' = <<>>
    /\ pc' = "menu"
    /\ export_result' = None
    /\ UNCHANGED <<fonts, applied_filters, search_term, page, total_pages>>
    /\ SessionFrame

ListUnknown ==
    /\ pc = "listing"
    /\ \E ln \in ListLines :
        /\ ListKey(ln) \notin {"n", "next", "p", "prev", ""}
        /\ line' = ln
    /\ out' = MsgListUnknown
    /\ table' = show_fonts_table(fonts, page * page_size, Limit(page_size))
    /\ export_result' = None
    /\ UNCHANGED <<pc, fonts, applied_filters, search_term, page, total_pages>>
    /\ SessionFrame

MenuN ==
    /\ pc = "menu"
    /\ \E ln \in MenuLines :
        /\ MenuParts(ln) # <<>>
        /\ MenuCmd(ln) = "n"
        /\ line' = ln
    /\ out' = MsgHint
    /\ export_result' = None
    /\ UNCHANGED <<pc, fonts, applied_filters, search_term, page, total_pages, table>>
    /\ SessionFrame

MenuP ==
    /\ pc = "menu"
    /\ \E ln \in MenuLines :
        /\ MenuParts(ln) # <<>>
        /\ MenuCmd(ln) = "p"
        /\ line' = ln
    /\ out' = MsgHint
    /\ export_result' = None
    /\ UNCHANGED <<pc, fonts, applied_filters, search_term, page, total_pages, table>>
    /\ SessionFrame

\* `s [term]`: the term is set (or cleared) and the working set rebuilt.
MenuSearch ==
    /\ pc = "menu"
    /\ \E ln \in MenuLines :
        /\ MenuParts(ln) # <<>>
        /\ MenuCmd(ln) = "s"
        /\ line' = ln
        /\ search_term' = IF Len(MenuParts(ln)) = 2 THEN MenuArg(ln) ELSE ""
    /\ fonts' = refresh_working_set(applied_filters, search_term')
    /\ out' = MsgSearch
    /\ export_result' = None
    /\ UNCHANGED <<pc, applied_filters, page, total_pages, table>>
    /\ SessionFrame

\* `f`: the filter menu is printed and its prompt waits.
MenuFilter ==
    /\ pc = "menu"
    /\ \E ln \in MenuLines :
        /\ MenuParts(ln) # <<>>
        /\ MenuCmd(ln) = "f"
        /\ line' = ln
    /\ out' = None
    /\ pc' = "filter-menu"
    /\ export_result' = None
    /\ UNCHANGED <<fonts, applied_filters, search_term, page, total_pages, table>>
    /\ SessionFrame

\* `t`: the stats of the working set are computed and printed.
MenuStats ==
    /\ pc = "menu"
    /\ \E ln \in MenuLines :
        /\ MenuParts(ln) # <<>>
        /\ MenuCmd(ln) = "t"
        /\ line' = ln
    /\ LET st == compute_stats(fonts) IN out' = MsgStats
    /\ export_result' = None
    /\ UNCHANGED <<pc, fonts, applied_filters, search_term, page, total_pages, table>>
    /\ SessionFrame

\* `e` without a path
MenuExportUsage ==
    /\ pc = "menu"
    /\ \E ln \in MenuLines :
        /\ MenuParts(ln) # <<>>
        /\ MenuCmd(ln) = "e"
        /\ Len(MenuParts(ln)) < 2
        /\ line' = ln
    /\ out' = MsgUsage
    /\ export_result' = None
    /\ UNCHANGED <<pc, fonts, applied_filters, search_term, page, total_pages, table>>
    /\ SessionFrame

\* An export command with no try around the call of export_fonts.
MenuExportNoTry ==
    /\ pc = "menu"
    /\ \E ln \in MenuLines, fault \in ExportFaults :
        /\ MenuParts(ln) # <<>>
        /\ MenuCmd(ln) = "e"
        /\ Len(MenuParts(ln)) = 2
        /\ line' = ln
        /\ export_result' = export_fonts(fonts, MenuArg(ln), fault)
    /\ out' = CASE export_result' = "exported" -> MsgExported
              [] export_result' = "reported" -> MsgExportReported
              [] export_result' = "raised" -> None
    /\ pc' = IF export_result' = "raised" THEN "crashed" ELSE pc
    /\ UNCHANGED <<fonts, applied_filters, search_term, page, total_pages, table>>
    /\ SessionFrame

\* `e <path>`: export_fonts is called inside a try; what it raises is printed.
MenuExport ==
    /\ pc = "menu"
    /\ \E ln \in MenuLines, fault \in ExportFaults :
        /\ MenuParts(ln) # <<>>
        /\ MenuCmd(ln) = "e"
        /\ Len(MenuParts(ln)) = 2
        /\ line' = ln
        /\ export_result' = export_fonts(fonts, MenuArg(ln), fault)
    /\ out' = CASE export_result' = "exported" -> MsgExported
              [] export_result' = "reported" -> MsgExportReported
              [] export_result' = "raised" -> MsgExportFailed
    /\ UNCHANGED <<pc, fonts, applied_filters, search_term, page, total_pages, table>>
    /\ SessionFrame

MenuCommands == {"h", "q", "l", "n", "p", "s", "f", "t", "e"}

\* A dispatcher that falls off its end without a message.
MenuUnknownSilent ==
    /\ pc = "menu"
    /\ \E ln \in MenuLines :
        /\ MenuParts(ln) # <<>>
        /\ MenuCmd(ln) \notin MenuCommands
        /\ line' = ln
    /\ out' = None
    /\ export_result' = None
    /\ UNCHANGED <<pc, fonts, applied_filters, search_term, page, total_pages, table>>
    /\ SessionFrame

\* No branch of the dispatcher took the command.
MenuUnknown ==
    /\ pc = "menu"
    /\ \E ln \in MenuLines :
        /\ MenuParts(ln) # <<>>
        /\ MenuCmd(ln) \notin MenuCommands
        /\ line' = ln
    /\ out' = MsgUnknown
    /\ export_result' = None
    /\ UNCHANGED <<pc, fonts, applied_filters, search_term, page, total_pages, table>>
    /\ SessionFrame

\* "" or "0" in the filter menu: return
FilterReturn ==
    /\ pc = "filter-menu"
    /\ \E ln \in FilterLines :
        /\ Choice(ln) \in {"", "0"}
        /\ line' = ln
    /\ out' = None
    /\ pc' = "menu"
    /\ export_result' = None
    /\ UNCHANGED <<fonts, applied_filters, search_term, page, total_pages, table>>
    /\ SessionFrame

\* A toggle that switches the filter on whatever it was.
FilterToggleSetsOn ==
    /\ pc = "filter-menu"
    /\ \E ln \in FilterLines :
        /\ Choice(ln) \notin {"", "0"}
        /\ ChoiceInt(ln).ok
        /\ ChoiceInt(ln).value \in 1..Len(FilterKeys)
        /\ line' = ln
        /\ applied_filters' =
              [applied_filters EXCEPT ![FilterKeys[ChoiceInt(ln).value]] = TRUE]
    /\ fonts' = refresh_working_set(applied_filters', search_term)
    /\ out' = None
    /\ export_result' = None
    /\ UNCHANGED <<pc, search_term, page, total_pages, table>>
    /\ SessionFrame

\* A number from 1 to 5: the filter of that index is flipped and the working
\* set rebuilt.
FilterToggle ==
    /\ pc = "filter-menu"
    /\ \E ln \in FilterLines :
        /\ Choice(ln) \notin {"", "0"}
        /\ ChoiceInt(ln).ok
        /\ ChoiceInt(ln).value \in 1..Len(FilterKeys)
        /\ line' = ln
        /\ applied_filters' =
              [applied_filters EXCEPT ![FilterKeys[ChoiceInt(ln).value]] = ~@]
    /\ fonts' = refresh_working_set(applied_filters', search_term)
    /\ out' = None
    /\ export_result' = None
    /\ UNCHANGED <<pc, search_term, page, total_pages, table>>
    /\ SessionFrame

\* A number outside 1..5
FilterInvalidNumber ==
    /\ pc = "filter-menu"
    /\ \E ln \in FilterLines :
        /\ Choice(ln) \notin {"", "0"}
        /\ ChoiceInt(ln).ok
        /\ ChoiceInt(ln).value \notin 1..Len(FilterKeys)
        /\ line' = ln
    /\ out' = MsgInvalidNumber
    /\ export_result' = None
    /\ UNCHANGED <<pc, fonts, applied_filters, search_term, page, total_pages, table>>
    /\ SessionFrame

\* int(choice) raises ValueError
FilterNotANumber ==
    /\ pc = "filter-menu"
    /\ \E ln \in FilterLines :
        /\ Choice(ln) \notin {"", "0"}
        /\ ~ChoiceInt(ln).ok
        /\ line' = ln
    /\ out' = MsgEnterNumber
    /\ export_result' = None
    /\ UNCHANGED <<pc, fonts, applied_filters, search_term, page, total_pages, table>>
    /\ SessionFrame

Next ==
    \/ MenuEmpty
    \/ MenuHelp
    \/ MenuQuit
    \/ MenuList
    \/ ListNext
    \/ ListPrev
    \/ ListReturn
    \/ ListUnknown
    \/ MenuN
    \/ MenuP
    \/ MenuSearch
    \/ MenuFilter
    \/ MenuStats
    \/ MenuExportUsage
    \/ MenuExport
    \/ MenuUnknown
    \/ FilterReturn
    \/ FilterToggle
    \/ FilterInvalidNumber
    \/ FilterNotANumber

Spec == Init /\ [][Next]_vars

Waiting == {"menu", "listing", "filter-menu"}

ActiveFilters == {k \in DOMAIN applied_filters : applied_filters[k]}

\* C1: whenever a prompt waits for input, the working set is the catalog's
\* fonts, in catalog order, whose tags meet the active filters (all fonts with
\* no active filter) and whose name contains the search term whatever the case
\* (all of them with an empty term).
C1_WorkingSetFromScratch ==
    pc \in Waiting =>
        fonts = SelectSeq(all_fonts,
                    LAMBDA f : /\ ActiveFilters = {} \/ f.cats \cap ActiveFilters # {}
                               /\ search_term = "" \/ NameHasTerm(f.name, search_term))

\* C1's case: a filter has just been switched off again while a search term
\* is set, and the working set is neither empty nor the whole catalog.
C1_Witness ==
    /\ pc = "filter-menu"
    /\ line = "1"
    /\ ~applied_filters["mono"]
    /\ applied_filters["serif"]
    /\ search_term = "e"
    /\ fonts # <<>>
    /\ Len(fonts) < Len(all_fonts)

\* The rows of page k of a list: the items numbered k*page_size+1 ..
\* min((k+1)*page_size, size).
PageShows(rows, fs, k) ==
    LET lo == k * page_size + 1
        hi == Min2((k + 1) * page_size, Len(fs))
    IN  /\ Len(rows) = (IF hi >= lo THEN hi - lo + 1 ELSE 0)
        /\ \A i \in 1..Len(rows) :
            /\ rows[i].num = lo + i - 1
            /\ rows[i].name = fs[lo + i - 1].name
            /\ rows[i].path = fs[lo + i - 1].path

\* C2: in the listing the page index stays in 0 .. total_pages-1, where
\* total_pages = max(1, ceil(size / page size)); the page drawn shows exactly
\* its items; next on the last page and prev on the first page leave the page
\* unchanged and print the boundary notice, and elsewhere they move one page.
C2_Pagination ==
    /\ [](pc = "listing" =>
            /\ total_pages = (IF Len(fonts) = 0 THEN 1
                              ELSE (Len(fonts) + page_size - 1) \div page_size)
            /\ total_pages * page_size >= Len(fonts)
            /\ (total_pages - 1) * page_size < Len(fonts) \/ total_pages = 1
            /\ page \in 0..(total_pages - 1)
            /\ PageShows(table, fonts, page))
    /\ [][(pc = "listing" /\ line' \in {"n", " NEXT"}) =>
            (IF page = total_pages - 1
             THEN page' = page /\ out' = MsgLastPage
             ELSE page' = page + 1)]_vars
    /\ [][(pc = "listing" /\ line' \in {"p", "prev"}) =>
            (IF page = 0
             THEN page' = page /\ out' = MsgFirstPage
             ELSE page' = page - 1)]_vars

\* C2's case: 20 fonts, next typed on the last page: page 1 stays, shows the
\* items 17 to 20, and the notice is printed.
C2_Witness ==
    /\ pc = "listing"
    /\ Len(fonts) = 20
    /\ page = 1
    /\ line = "n"
    /\ out = MsgLastPage
    /\ Len(table) = 4
    /\ table[1].num = 17
    /\ table[4].num = 20

IndexLines == {<<"1", 1>>, <<"2", 2>>, <<" 3 ", 3>>, <<"4", 4>>, <<"05", 5>>}

\* C9: in the filter menu an index i in 1..5 flips exactly the i-th filter,
\* leaves the other four and the search term unchanged and stays; "0" or an
\* empty line changes no filter and returns to the menu; a line that is not a
\* number, or a number outside 1..5, reports an error, changes no filter and
\* stays.
C9_FilterMenuFrame ==
    [][(pc = "filter-menu" /\ line' \in FilterLines) =>
        /\ \A il \in IndexLines :
              line' = il[1] =>
                /\ applied_filters' =
                     [k \in DOMAIN applied_filters |->
                        IF k = FilterKeys[il[2]] THEN ~applied_filters[k]
                        ELSE applied_filters[k]]
                /\ search_term' = search_term
                /\ pc' = "filter-menu"
        /\ line' \in {"x", "q"} =>
              /\ out' = MsgEnterNumber
              /\ UNCHANGED <<applied_filters, search_term, fonts>>
              /\ pc' = "filter-menu"
        /\ line' \in {"6", "00"} =>
              /\ out' = MsgInvalidNumber
              /\ UNCHANGED <<applied_filters, search_term, fonts>>
              /\ pc' = "filter-menu"
        /\ line' \in {"", "0"} =>
              /\ UNCHANGED <<applied_filters, search_term, fonts>>
              /\ pc' = "menu"
        /\ line' \in {il[1] : il \in IndexLines} \cup {"x", "q", "6", "00", "", "0"}]_vars

\* C9's case: the third filter has just been flipped on, next to another
\* active filter and a search term.
C9_Witness ==
    /\ pc = "filter-menu"
    /\ line = " 3 "
    /\ applied_filters["sans"]
    /\ applied_filters["mono"]
    /\ ~applied_filters["serif"]
    /\ search_term = "FONT"

\* The steps of C10: a line typed at the menu that holds a command.
MenuCommandStep == pc = "menu" /\ line' \in MenuLines /\ MenuParts(line') # <<>>

MenuStays ==
    /\ pc' = "menu"
    /\ UNCHANGED <<applied_filters, search_term, fonts>>

-----------------------------------------------------------------------------
(* The batch flow of main: SpecBatch *)

MaxBatchCopies == 2
MaxLimit == 3

BatchCatalogs ==
    {attach_classification(get_all_fonts(Len(Pool), [j \in 1..Len(Pool) |-> c])) :
        c \in 0..MaxBatchCopies}

BatchFilters ==
    {NoFilters,
     [NoFilters EXCEPT !["mono"] = TRUE],
     [NoFilters EXCEPT !["display"] = TRUE, !["symbol"] = TRUE]}

MsgNoFonts == "No fonts found matching your criteria."

\* The parsed command line, without --tui.
BatchArgs ==
    [filters : BatchFilters,
     search : BatchSearches,
     limit : {NoLimit} \cup {Limit(k) : k \in (-1)..MaxLimit},
     stats : BOOLEAN,
     export : {None, "out/fonts.json"},
     tui : {FALSE}]

InitBatch ==
    /\ pc = "filter"
    /\ args \in BatchArgs
    /\ all_fonts \in BatchCatalogs
    /\ fonts = all_fonts
    /\ NoSession
    /\ NoClassifyCall
    /\ export_result = None
    /\ stats = NoStats

BatchFrame ==
    UNCHANGED <<all_fonts, applied_filters, search_term, page, total_pages, line,
                args, font_name, font_path, metadata, cats>>

\* fonts = filter_fonts(fonts, args.mono, ...)
BatchFilter ==
    /\ pc = "filter"
    /\ fonts' = filter_fonts(fonts, args.filters)
    /\ pc' = "search"
    /\ UNCHANGED <<out, table, export_result, stats>>
    /\ BatchFrame

\* if args.search: ...
BatchSearch ==
    /\ pc = "search"
    /\ fonts' = IF args.search # None /\ args.search # ""
                THEN search_fonts(fonts, args.search)
                ELSE fonts
    /\ pc' = "limit"
    /\ UNCHANGED <<out, table, export_result, stats>>
    /\ BatchFrame

\* if args.limit: fonts = fonts[: args.limit]
BatchLimit ==
    /\ pc = "limit"
    /\ fonts' = IF args.limit.given /\ args.limit.n # 0
                THEN Slice(fonts, 0, args.limit.n)
                ELSE fonts
    /\ pc' = "show"
    /\ UNCHANGED <<out, table, export_result, stats>>
    /\ BatchFrame

\* if not fonts: the message and sys.exit(0); else show_fonts_table(fonts)
BatchShow ==
    /\ pc = "show"
    /\ IF fonts = <<>>
       THEN /\ out' = MsgNoFonts
            /\ pc' = "exit"
            /\ UNCHANGED table
       ELSE /\ table' = show_fonts_table(fonts, 0, NoLimit)
            /\ pc' = "stats"
            /\ UNCHANGED out
    /\ UNCHANGED <<fonts, export_result, stats>>
    /\ BatchFrame

\* if args.stats: ...
BatchStats ==
    /\ pc = "stats"
    /\ IF args.stats
       THEN stats' = compute_stats(fonts) /\ out' = MsgStats
       ELSE UNCHANGED <<stats, out>>
    /\ pc' = "export"
    /\ UNCHANGED <<fonts, table, export_result>>
    /\ BatchFrame

\* if args.export: export_fonts(fonts, args.export), with no try around it
BatchExport ==
    /\ pc = "export"
    /\ IF args.export # None /\ args.export # ""
       THEN /\ \E fault \in ExportFaults :
                export_result' = export_fonts(fonts, args.export, fault)
            /\ out' = CASE export_result' = "exported" -> MsgExported
                      [] export_result' = "reported" -> MsgExportReported
                      [] export_result' = "raised" -> out
            /\ pc' = IF export_result' = "raised" THEN "crashed" ELSE "done"
       ELSE /\ pc' = "done"
            /\ UNCHANGED <<export_result, out>>
    /\ UNCHANGED <<fonts, table, stats>>
    /\ BatchFrame

NextBatch ==
    \/ BatchFilter
    \/ BatchSearch
    \/ BatchLimit
    \/ BatchShow
    \/ BatchStats
    \/ BatchExport

SpecBatch == InitBatch /\ [][NextBatch]_vars

\* C3: every failure of an export is reported as a message and never raised
\* to the caller of export_fonts, and the process goes on.
C3_ExportFailuresReported ==
    /\ export_result # "raised"
    /\ pc # "crashed"

\* The list main has filtered and searched, before the limit.
BatchQueried ==
    LET filtered == filter_fonts(all_fonts, args.filters)
    IN  IF args.search # None /\ args.search # ""
        THEN search_fonts(filtered, args.search)
        ELSE filtered

\* C8: with --limit n, n >= 0, the list main displays is the first n fonts
\* of the filtered and searched list (all of it when it has fewer than n).
C8_LimitTruncates ==
    (pc \in {"show", "stats", "export", "done", "crashed", "exit"}
        /\ args.limit.given /\ args.limit.n >= 0)
    => /\ fonts = SubSeq(BatchQueried, 1, Min2(args.limit.n, Len(BatchQueried)))
       /\ pc \notin {"show", "exit"} => table = show_fonts_table(fonts, 0, NoLimit)

=============================================================================
